---- MODULE Spec2Model ----
(***************************************************************************)
(* eecho: a command-line front end (src/entry/eecho.ts) and a background   *)
(* translation worker (the queue worker in src/providers/provider.ts,      *)
(* lines 57-240) that talk through plain files in one queue directory:     *)
(* req-<id>.json, res-<id>.json and worker.pid.                            *)
(*                                                                         *)
(* Every awaited filesystem call, process spawn, timer and engine call is  *)
(* one step; the synchronous code that runs after an await resumes is part *)
(* of the step that completes the await.  A callback scheduled with        *)
(* setImmediate is a pending event of the worker's event loop: it fires    *)
(* at some later step, in any order with the completions of the I/O that   *)
(* the same process has in flight.                                         *)
(***************************************************************************)
EXTENDS Integers, Sequences, FiniteSets, TLC

\* ---------------------------------------------------------------- bounds
NumClis == 2        \* front-end invocations (each generates one request id)
MaxKills == 1       \* external terminations of a worker over the run
NumCalls == 3       \* concurrent Translator.translate calls on one provider

Clis == 1..NumClis
Pids == Clis        \* worker pids: an invocation spawns at most one worker
Ids == Clis         \* request ids: an invocation generates one id
Calls == 1..NumCalls

\* ------------------------------------------------------------ file content
\* a file is absent (ENOENT), partial (opened by writeFile, which creates or
\* truncates it, the data not yet written) or full
NoText == <<>>          \* request.text undefined
NoId == 0               \* request.id undefined
NoResult == <<>>        \* response.result undefined
NoError == ""           \* response.error undefined
NoCommand == ""         \* request.command undefined

\* characters: "s" white space, "a" a non-Japanese letter, "j" hiragana/katakana/kanji
Chars == {"s", "a", "j"}

\* the input texts the front end is started with in the process model
InputTexts == {<<"j">>, <<"s", "a">>, <<"s">>}

\* String.prototype.trim
RECURSIVE TrimLeft(_)
TrimLeft(t) == IF t # <<>> /\ Head(t) = "s" THEN TrimLeft(Tail(t)) ELSE t

RECURSIVE TrimRight(_)
TrimRight(t) ==
    IF t # <<>> /\ t[Len(t)] = "s" THEN TrimRight(SubSeq(t, 1, Len(t) - 1)) ELSE t

Trim(t) == TrimRight(TrimLeft(t))

\* src/utils/detectJapanese.ts
detectJapanese_NotBlank(t) == Trim(t) # <<>>

detectJapanese(t) ==
    IF Trim(t) = <<>> THEN FALSE ELSE \E i \in 1..Len(t) : t[i] = "j"

\* the translation engine as a black box: the same text gives the same output
EngineOutput(t) == [i \in 1..Len(t) |-> IF t[i] = "j" THEN "a" ELSE t[i]]

\* TransformersProvider.translate throws: new Error(`Translation failed: ${error.message}`)
EngineError == "Translation failed: engine"

\* TransformersProvider.isAvailable: always true
isAvailable == TRUE

\* TranslationOutput (provider and duration are left out: the provider name
\* is a constant of the build, the duration a clock reading)
TranslationOutput(text, translated, japanese) ==
    [translatedText |-> translated, originalText |-> text, wasJapanese |-> japanese]

\* ------------------------------------------------------ requests, responses
Request(id, command, text) ==
    [state |-> "full", id |-> id, command |-> command, text |-> text]
AbsentRequest == [state |-> "absent", id |-> NoId, command |-> NoCommand, text |-> NoText]
PartialRequest == [AbsentRequest EXCEPT !.state = "partial"]

Response(ok, result, error) ==
    [state |-> "full", ok |-> ok, result |-> result, error |-> error]
AbsentResponse == [state |-> "absent", ok |-> FALSE, result |-> NoResult, error |-> NoError]
PartialResponse == [AbsentResponse EXCEPT !.state = "partial"]

PidMarker(pid) == [state |-> "full", pid |-> pid]
AbsentPid == [state |-> "absent", pid |-> 0]
PartialPid == [state |-> "partial", pid |-> 0]

\* ------------------------------------------------------------------ state
VARIABLES
    queueDir,   \* the queue directory exists
    pidFile,    \* worker.pid
    reqFile,    \* req-<id>.json, by id
    resFile,    \* res-<id>.json, by id
    worker,     \* the worker processes, by pid
    handler,    \* the worker's processRequestFile calls, by pid and file
    cli,        \* the front-end processes
    responses,  \* by request id, the writeResponse calls completed (history)
    provider,   \* the fields of one TranslateProvider object
    call        \* the Translator.translate calls in progress on it

vars == <<queueDir, pidFile, reqFile, resFile, worker, handler, cli, responses,
          provider, call>>

\* a worker process: pc is its position in startQueueWorker; processing is
\* the Set of startQueueWorker; exitPending says that
\* a setImmediate(process.exit) callback is scheduled; sharedTranslator says
\* that the module's translator has been constructed.
NewWorker ==
    [pc |-> "unborn", processing |-> {}, exitPending |-> FALSE, sharedTranslator |-> FALSE]

\* a processRequestFile call: pc is its position, raw the content it read.
\* unanswered is kept for the properties: in the call that handles a
\* shutdown request, the requests that were in flight when handleRequest
\* saw the shutdown command and have had no response written since.
IdleHandler == [pc |-> "idle", raw |-> AbsentRequest, unanswered |-> {}]

\* a front-end process: pc is its position in main and its callees; verbose,
\* shutdownWorker and text are its options and its trimmed input; ret is the
\* caller of the isWorkerAlive call under way; pid and raw are the content
\* read from worker.pid and from the response file; result, error and exit
\* are what main prints and how the process ends; path, workerError and
\* restart record what the process has done, for the properties: the way the
\* result was produced, the error the queued path threw, and whether a
\* worker had been terminated from outside when the process spawned one.
NewCli ==
    [pc |-> "start", verbose |-> FALSE, shutdownWorker |-> FALSE, text |-> <<>>,
     ret |-> "", pid |-> 0, raw |-> AbsentResponse,
     result |-> NoResult, error |-> NoError, exit |-> 0,
     path |-> "", workerError |-> NoError, restart |-> FALSE]


Running(p) == worker[p].pc \in {"start", "start2", "start2Lost", "run"}

\* --------------------------------------------------------- the filesystem
\* unlink removes the name; a writeFile that has opened the file and not yet
\* written its data keeps writing to the removed file, so its data is lost
UnlinkResIn(h, id) ==
    [p \in Pids |-> [f \in Ids |->
        IF h[p][f].pc = "write2" /\ h[p][f].raw.id = id
        THEN [h[p][f] EXCEPT !.pc = "write2Lost"] ELSE h[p][f]]]

UnlinkPidIn(w) ==
    [p \in Pids |-> IF w[p].pc = "start2" THEN [w[p] EXCEPT !.pc = "start2Lost"] ELSE w[p]]

UnlinkReqIn(c, f) ==
    [d \in Clis |-> IF d = f /\ c[d].pc = "writeReq2" THEN [c[d] EXCEPT !.pc = "writeReqLost"]
                                                      ELSE c[d]]

\* ------------------------------------------------------------- the worker
\* Translator.translate once the provider has returned (or was not needed)
TranslatorResult_Untrimmed(text) ==
    IF detectJapanese(Trim(text))
    THEN TranslationOutput(text, EngineOutput(text), TRUE)
    ELSE TranslationOutput(text, text, FALSE)

TranslatorResult(text) ==
    IF detectJapanese(Trim(text))
    THEN TranslationOutput(Trim(text), EngineOutput(Trim(text)), TRUE)
    ELSE TranslationOutput(Trim(text), Trim(text), FALSE)

\* handleRequest: the response for a parsed request whose translation did not throw
handleRequest_NoTextCheck(request) ==
    IF request.command = "shutdown" THEN Response(TRUE, NoResult, NoError)
    ELSE Response(TRUE, <<TranslationOutput(Trim(request.text), Trim(request.text), FALSE)>>,
                  NoError)

handleRequest_Untranslated(request) ==
    IF request.command = "shutdown" THEN Response(TRUE, NoResult, NoError)
    ELSE IF Trim(request.text) = <<>> THEN Response(FALSE, NoResult, "No input text provided")
    ELSE Response(TRUE, <<TranslationOutput(request.text, request.text, FALSE)>>, NoError)

handleRequest(request) ==
    IF request.command = "shutdown" THEN Response(TRUE, NoResult, NoError)
    ELSE IF Trim(request.text) = <<>> THEN Response(FALSE, NoResult, "No input text provided")
    ELSE Response(TRUE, <<TranslatorResult(request.text)>>, NoError)

\* the request files whose handling by p has read the file and has not yet
\* written the response
InFlight(p) == {f \in Ids : handler[p][f].pc \in {"unlink", "translate", "write", "write2", "write2Lost"}}

\* processRequestFile returns or throws: .finally(() => processing.delete(entry))
Finish(p, f) ==
    /\ handler' = [handler EXCEPT ![p][f] = IdleHandler]
    /\ worker' = [worker EXCEPT ![p].processing = @ \ {f}]

\* the process is gone: its memory and its pending events with it
Dead(w, how) ==
    [w EXCEPT !.pc = how, !.processing = {}, !.exitPending = FALSE,
              !.sharedTranslator = FALSE]

\* startQueueWorker: fs.mkdir(queueDir, { recursive: true }) and
\* fs.writeFile(PID_FILE, String(process.pid)), whole or the data of an
\* opened file.  The directory exists already (spawnWorker made it)
WritePid(p) ==
    /\ worker[p].pc \in {"start", "start2", "start2Lost"}
    /\ queueDir' = TRUE
    /\ pidFile' = IF worker[p].pc = "start2Lost" THEN pidFile ELSE PidMarker(p)
    /\ worker' = [worker EXCEPT ![p].pc = "run"]
    /\ UNCHANGED <<reqFile, resFile, handler, cli, responses, provider, call>>

\* scanQueue: fs.readdir(queueDir) and the for loop over the listing.  The
\* loop touches only the memory of the process, and a request file is never
\* written a second time, so a handler the loop starts from an older listing
\* for a file that is gone meanwhile fails in readFile and changes nothing:
\* the listing and the loop are one step
StartsHandler(p, entry) == entry \notin worker[p].processing

Scan(p, files) ==
    LET entries == {f \in Ids : files[f].state # "absent"}
        started == {f \in entries : StartsHandler(p, f)}
    IN /\ started # {}
       /\ worker' = [worker EXCEPT ![p].processing = @ \cup started]
       /\ handler' = [handler EXCEPT ![p] =
             [f \in Ids |-> IF f \in started THEN [IdleHandler EXCEPT !.pc = "read"]
                                            ELSE handler[p][f]]]

scanQueue(p) ==
    /\ worker[p].pc = "run"
    /\ Scan(p, reqFile)
    /\ UNCHANGED <<queueDir, pidFile, reqFile, resFile, cli, responses, provider, call>>

\* processRequestFile: fs.readFile(requestPath)
ReadRequestFile(p, f) ==
    /\ handler[p][f].pc = "read"
    /\ IF reqFile[f].state = "absent"
       THEN Finish(p, f)
       ELSE /\ handler' = [handler EXCEPT ![p][f].pc = "unlink", ![p][f].raw = reqFile[f]]
            /\ UNCHANGED worker
    /\ UNCHANGED <<queueDir, pidFile, reqFile, resFile, cli, responses, provider, call>>

\* processRequestFile: JSON.parse(raw) returns (an empty file throws) and
\* request.id is there
HasId_Always(request) == TRUE

HasId(request) == request.state = "full" /\ request.id # NoId

\* getTranslator: the module's sharedTranslator is constructed if it is null
getTranslator_NotKept(w) == w

getTranslator(w) == [w EXCEPT !.sharedTranslator = TRUE]

\* processRequestFile: fs.unlink(requestPath), then JSON.parse, the id check
\* and handleRequest up to its first await
UnlinkRequestFile(p, f) ==
    /\ handler[p][f].pc = "unlink"
    /\ reqFile' = [reqFile EXCEPT ![f] = AbsentRequest]
    /\ cli' = UnlinkReqIn(cli, f)
    /\ LET request == handler[p][f].raw
       IN IF ~HasId(request)
          THEN Finish(p, f)
          ELSE IF request.command = "shutdown"
          THEN /\ worker' = [worker EXCEPT ![p].exitPending = TRUE]
               /\ handler' = [handler EXCEPT ![p][f].pc = "write",
                                             ![p][f].unanswered = InFlight(p) \ {f}]
          ELSE IF Trim(request.text) = <<>>
          THEN /\ handler' = [handler EXCEPT ![p][f].pc = "write"]
               /\ UNCHANGED worker
          ELSE /\ worker' = [worker EXCEPT ![p] = getTranslator(@)]
               /\ handler' = [handler EXCEPT ![p][f].pc =
                                 IF detectJapanese(Trim(request.text)) /\ isAvailable
                                 THEN "translate" ELSE "write"]
    /\ UNCHANGED <<queueDir, pidFile, resFile, responses, provider, call>>

\* Translator.translate: this.provider.translate(originalText) returns or throws;
\* a throw leaves handleRequest and is caught by processRequestFile
ProviderTranslate(p, f) ==
    /\ handler[p][f].pc = "translate"
    /\ \/ /\ handler' = [handler EXCEPT ![p][f].pc = "write"]
          /\ UNCHANGED worker
       \/ Finish(p, f)
    /\ UNCHANGED <<queueDir, pidFile, reqFile, resFile, cli, responses, provider, call>>

\* writeFile is open (create or truncate), write, close.  A file that is
\* opened and not yet written differs from the written file only for the
\* process that reads it in between, and from no file only for the process
\* that lists or reads it in between: the open is a step of its own where
\* such a read or listing follows it at once, and part of the write otherwise

\* writeResponse: the open of fs.writeFile(responsePath, ...), and the
\* readFile(responsePath) of the waiting front end that finds the empty file
WriteResponseOpen(p, f) ==
    /\ handler[p][f].pc = "write"
    /\ LET id == handler[p][f].raw.id
       IN /\ cli[id].pc = "poll"
          /\ resFile' = [resFile EXCEPT ![id] = PartialResponse]
          /\ cli' = [cli EXCEPT ![id].pc = "unlinkRes", ![id].raw = PartialResponse]
    /\ handler' = [handler EXCEPT ![p][f].pc = "write2"]
    /\ UNCHANGED <<queueDir, pidFile, reqFile, worker, responses, provider, call>>

\* writeResponse: fs.writeFile(responsePath, ...), whole or the data of an
\* opened file; then the shutdown branch of processRequestFile or its return
WriteResponseData(p, f) ==
    /\ handler[p][f].pc \in {"write", "write2", "write2Lost"}
    /\ LET request == handler[p][f].raw
       IN /\ resFile' = IF handler[p][f].pc = "write2Lost"
                        THEN resFile
                        ELSE [resFile EXCEPT ![request.id] = handleRequest(request)]
          /\ responses' = [responses EXCEPT ![request.id] = @ + 1]
          /\ handler' = [handler EXCEPT ![p] = [g \in Ids |->
                IF g = f
                THEN IF request.command = "shutdown" THEN [@[g] EXCEPT !.pc = "unlinkPid"]
                                                     ELSE IdleHandler
                ELSE [@[g] EXCEPT !.unanswered = @ \ {f}]]]
          /\ worker' = IF request.command = "shutdown" THEN worker
                       ELSE [worker EXCEPT ![p].processing = @ \ {f}]
    /\ UNCHANGED <<queueDir, pidFile, reqFile, cli, provider, call>>

\* processRequestFile: fs.unlink(PID_FILE), then setImmediate(() => process.exit(0))
UnlinkPidFile(p, f) ==
    /\ handler[p][f].pc = "unlinkPid"
    /\ pidFile' = AbsentPid
    /\ handler' = [handler EXCEPT ![p][f] = IdleHandler]
    /\ worker' = UnlinkPidIn([worker EXCEPT ![p].exitPending = TRUE,
                                            ![p].processing = @ \ {f}])
    /\ UNCHANGED <<queueDir, reqFile, resFile, cli, responses, provider, call>>

\* the process ends while writeResponse calls are under way: each of them
\* has opened its file or not, and an opened file stays behind empty
Opened(p) == {handler[p][f].raw.id : f \in {g \in Ids : handler[p][g].pc = "write"}}

Dies(p, how) ==
    /\ worker' = [worker EXCEPT ![p] = Dead(@, how)]
    /\ handler' = [handler EXCEPT ![p] = [f \in Ids |-> IdleHandler]]
    /\ \E opened \in SUBSET Opened(p) :
         resFile' = [id \in Ids |-> IF id \in opened THEN PartialResponse ELSE resFile[id]]
    /\ UNCHANGED <<queueDir, pidFile, reqFile, cli, responses, provider, call>>

\* a scheduled setImmediate callback runs: process.exit(0)
ExitEnabled(p) == worker[p].exitPending

Exit(p) ==
    /\ worker[p].pc = "run"
    /\ ExitEnabled(p)
    /\ Dies(p, "exited")

\* the environment terminates the worker process (SIGKILL, crash)
Kill(p) ==
    /\ Running(p)
    /\ Cardinality({q \in Pids : worker[q].pc = "killed"}) < MaxKills
    /\ Dies(p, "killed")

\* ---------------------------------------------------------- the front end
Alive_Always(pid) == TRUE

Alive(pid) == pid \in Pids /\ Running(pid)

\* main: the process ends, with a printed result or with exitWithError
Done(c, result, error, path) ==
    [c EXCEPT !.pc = "done", !.ret = "", !.pid = 0, !.raw = AbsentResponse,
              !.result = result, !.error = error,
              !.exit = IF error = NoError THEN 0 ELSE 1, !.path = path,
              !.restart = FALSE]

\* translateLocally: Translator.translate returns at once for text without
\* Japanese; otherwise this.provider.translate returns (engineOk) or throws.
\* The call touches nothing outside the process, so it is part of the step
\* that makes it
translateLocally_WorkerError(c, path, engineOk) ==
    IF detectJapanese(c.text) /\ isAvailable /\ ~engineOk
    THEN Done(c, NoResult, IF c.workerError # NoError THEN c.workerError ELSE EngineError, path)
    ELSE Done(c, <<TranslatorResult(c.text)>>, NoError, path)

translateLocally(c, path, engineOk) ==
    IF detectJapanese(c.text) /\ isAvailable /\ ~engineOk
    THEN Done(c, NoResult, EngineError, path)
    ELSE Done(c, <<TranslatorResult(c.text)>>, NoError, path)

\* the queued path throws: the catch of runTranslation, or the catch of main
\* for --shutdown-worker
FallsBack_Never(c) == FALSE

FallsBack(c) == ~c.shutdownWorker

WorkerPathFails(c, error, engineOk) ==
    IF FallsBack(c)
    THEN translateLocally([c EXCEPT !.workerError = error], "fallback", engineOk)
    ELSE Done([c EXCEPT !.workerError = error], NoResult, error, "worker")

\* runTranslation: if (options.verbose) return translateLocally(trimmed, options)
SkipsQueue_Never(verbose) == FALSE

SkipsQueue(verbose) == verbose

\* runTranslation: trimmed.length === 0
IsEmptyInput_Never(text) == FALSE

IsEmptyInput(text) == Len(text) = 0

\* main and runTranslation up to the first await; the invocations are
\* numbered in the order they start
Start(d) ==
    /\ cli[d].pc = "start"
    /\ \A e \in Clis : e < d => cli[e].pc # "start"
    /\ \/ cli' = [cli EXCEPT ![d] = [@ EXCEPT !.shutdownWorker = TRUE, !.pc = "readPid",
                                               !.ret = "shutdown"]]
       \/ \E verbose \in BOOLEAN, inputText \in InputTexts, engineOk \in BOOLEAN :
            LET c == [cli[d] EXCEPT !.verbose = verbose, !.text = Trim(inputText)]
            IN cli' = [cli EXCEPT ![d] =
                 IF IsEmptyInput(c.text)
                 THEN Done(c, NoResult, "Translation input cannot be empty", "")
                 ELSE IF SkipsQueue(verbose) THEN translateLocally(c, "verbose", engineOk)
                 ELSE [c EXCEPT !.pc = "mkdir"]]
    /\ UNCHANGED <<queueDir, pidFile, reqFile, resFile, worker, handler, responses, provider, call>>

\* queueWorkerRequest: ensureWorkerDir()
EnsureWorkerDir(d) ==
    /\ cli[d].pc = "mkdir"
    /\ queueDir' = TRUE
    /\ cli' = [cli EXCEPT ![d].pc = "writeReq"]
    /\ UNCHANGED <<pidFile, reqFile, resFile, worker, handler, responses, provider, call>>

\* randomRequestId: Date.now() and Math.random(); no two invocations get the same id
randomRequestId_Same(d) == 1

randomRequestId(d) == d

\* queueWorkerRequest: the open of writeFile(requestPath, ...), and the
\* scanQueue of a worker that lists the empty file
WriteRequestOpen(d, p) ==
    /\ cli[d].pc = "writeReq"
    /\ worker[p].pc = "run"
    /\ reqFile' = [reqFile EXCEPT ![randomRequestId(d)] = PartialRequest]
    /\ cli' = [cli EXCEPT ![d].pc = "writeReq2"]
    /\ Scan(p, reqFile')
    /\ UNCHANGED <<queueDir, pidFile, resFile, responses, provider, call>>

\* queueWorkerRequest: writeFile(requestPath, ...), whole or the data of an
\* opened file; then ensureWorkerRunning calls isWorkerAlive
WriteRequestData(d) ==
    /\ cli[d].pc \in {"writeReq", "writeReq2", "writeReqLost"}
    /\ LET id == randomRequestId(d)
           payload == IF cli[d].shutdownWorker THEN Request(id, "shutdown", NoText)
                                               ELSE Request(id, NoCommand, cli[d].text)
       IN reqFile' = IF cli[d].pc = "writeReqLost" THEN reqFile
                                                   ELSE [reqFile EXCEPT ![id] = payload]
    /\ cli' = [cli EXCEPT ![d].pc = "readPid", ![d].ret = "ensure"]
    /\ UNCHANGED <<queueDir, pidFile, resFile, worker, handler, responses, provider, call>>

\* isWorkerAlive returns to shutdownWorkerProcess, ensureWorkerRunning or
\* waitForWorkerReady.  In waitForWorkerReady a false is followed by the
\* 200 ms sleep and the loop condition, which finds the 10 s elapsed
\* (timedOut) or not; both touch nothing outside the process
Returns_NoTimeout(c, alive, timedOut, engineOk) ==
    IF c.ret = "shutdown"
    THEN IF alive THEN [c EXCEPT !.pc = "mkdir", !.ret = "", !.pid = 0]
                  ELSE Done(c, NoResult, "Worker is not running", "")
    ELSE IF alive THEN [c EXCEPT !.pc = "poll", !.ret = "", !.pid = 0]
    ELSE IF c.ret = "ensure" THEN [c EXCEPT !.pc = "spawn", !.ret = "", !.pid = 0]
    ELSE [c EXCEPT !.pc = "readPid", !.pid = 0]

Returns_PollOnTimeout(c, alive, timedOut, engineOk) ==
    IF c.ret = "shutdown"
    THEN IF alive THEN [c EXCEPT !.pc = "mkdir", !.ret = "", !.pid = 0]
                  ELSE Done(c, NoResult, "Worker is not running", "")
    ELSE IF alive THEN [c EXCEPT !.pc = "poll", !.ret = "", !.pid = 0]
    ELSE IF c.ret = "ensure" THEN [c EXCEPT !.pc = "spawn", !.ret = "", !.pid = 0]
    ELSE IF timedOut THEN [c EXCEPT !.pc = "poll", !.ret = "", !.pid = 0]
    ELSE [c EXCEPT !.pc = "readPid", !.pid = 0]

Returns_Respawn(c, alive, timedOut, engineOk) ==
    IF c.ret = "shutdown"
    THEN IF alive THEN [c EXCEPT !.pc = "mkdir", !.ret = "", !.pid = 0]
                  ELSE Done(c, NoResult, "Worker is not running", "")
    ELSE IF alive THEN [c EXCEPT !.pc = "poll", !.ret = "", !.pid = 0]
    ELSE IF c.ret = "ensure" THEN [c EXCEPT !.pc = "spawn", !.ret = "", !.pid = 0]
    ELSE IF timedOut THEN [c EXCEPT !.pc = "spawn", !.ret = "", !.pid = 0]
    ELSE [c EXCEPT !.pc = "readPid", !.pid = 0]

Returns_SpawnAnyway(c, alive, timedOut, engineOk) ==
    IF c.ret = "shutdown"
    THEN IF alive THEN [c EXCEPT !.pc = "mkdir", !.ret = "", !.pid = 0]
                  ELSE Done(c, NoResult, "Worker is not running", "")
    ELSE IF c.ret = "ensure" THEN [c EXCEPT !.pc = "spawn", !.ret = "", !.pid = 0]
    ELSE IF alive THEN [c EXCEPT !.pc = "poll", !.ret = "", !.pid = 0]
    ELSE IF timedOut THEN WorkerPathFails(c, "Worker failed to start", engineOk)
    ELSE [c EXCEPT !.pc = "readPid", !.pid = 0]

Returns_ShutdownAnyway(c, alive, timedOut, engineOk) ==
    IF c.ret = "shutdown" THEN [c EXCEPT !.pc = "mkdir", !.ret = "", !.pid = 0]
    ELSE IF alive THEN [c EXCEPT !.pc = "poll", !.ret = "", !.pid = 0]
    ELSE IF c.ret = "ensure" THEN [c EXCEPT !.pc = "spawn", !.ret = "", !.pid = 0]
    ELSE IF timedOut THEN WorkerPathFails(c, "Worker failed to start", engineOk)
    ELSE [c EXCEPT !.pc = "readPid", !.pid = 0]

Returns(c, alive, timedOut, engineOk) ==
    IF c.ret = "shutdown"
    THEN IF alive THEN [c EXCEPT !.pc = "mkdir", !.ret = "", !.pid = 0]
                  ELSE Done(c, NoResult, "Worker is not running", "")
    ELSE IF alive THEN [c EXCEPT !.pc = "poll", !.ret = "", !.pid = 0]
    ELSE IF c.ret = "ensure" THEN [c EXCEPT !.pc = "spawn", !.ret = "", !.pid = 0]
    ELSE IF timedOut THEN WorkerPathFails(c, "Worker failed to start", engineOk)
    ELSE [c EXCEPT !.pc = "readPid", !.pid = 0]

\* readPid: readFile(pidPath); Number('') is 0 and a missing file gives null,
\* and isWorkerAlive returns false for both
ReadPid(d) ==
    /\ cli[d].pc = "readPid"
    /\ \E timedOut, engineOk \in BOOLEAN :
         cli' = [cli EXCEPT ![d] =
           IF pidFile.state = "full" THEN [@ EXCEPT !.pc = "probe", !.pid = pidFile.pid]
                                     ELSE Returns(@, FALSE, timedOut, engineOk)]
    /\ UNCHANGED <<queueDir, pidFile, reqFile, resFile, worker, handler, responses, provider, call>>

\* startQueueWorker: the open of fs.writeFile(PID_FILE, ...), and the readPid
\* of a front end that finds the empty marker: Number('') is 0, and
\* isWorkerAlive returns false for it without an unlink
WritePidOpen(p, d) ==
    /\ worker[p].pc = "start"
    /\ cli[d].pc = "readPid"
    /\ queueDir' = TRUE
    /\ pidFile' = PartialPid
    /\ worker' = [worker EXCEPT ![p].pc = "start2"]
    /\ \E timedOut, engineOk \in BOOLEAN :
         cli' = [cli EXCEPT ![d] = Returns(@, FALSE, timedOut, engineOk)]
    /\ UNCHANGED <<reqFile, resFile, handler, responses, provider, call>>

\* isWorkerAlive: process.kill(pid, 0)
Probe(d) ==
    /\ cli[d].pc = "probe"
    /\ cli' = [cli EXCEPT ![d] =
         IF Alive(@.pid) THEN Returns(@, TRUE, FALSE, FALSE) ELSE [@ EXCEPT !.pc = "stalePid"]]
    /\ UNCHANGED <<queueDir, pidFile, reqFile, resFile, worker, handler, responses, provider, call>>

\* isWorkerAlive: unlink(pidPath) of the stale marker
UnlinkStalePid(d) ==
    /\ cli[d].pc = "stalePid"
    /\ pidFile' = AbsentPid
    /\ worker' = UnlinkPidIn(worker)
    /\ \E timedOut, engineOk \in BOOLEAN :
         cli' = [cli EXCEPT ![d] = Returns(@, FALSE, timedOut, engineOk)]
    /\ UNCHANGED <<queueDir, reqFile, resFile, handler, responses, provider, call>>

\* spawnWorker: ensureWorkerDir() and spawn(...); the operating system gives
\* the child a pid no process has had; then waitForWorkerReady calls
\* isWorkerAlive
spawnWorker(d) ==
    /\ cli[d].pc = "spawn"
    /\ \E p \in Pids :
         /\ worker[p].pc = "unborn"
         /\ \A q \in Pids : q < p => worker[q].pc # "unborn"
         /\ worker' = [worker EXCEPT ![p].pc = "start"]
         /\ cli' = [cli EXCEPT ![d].pc = "readPid", ![d].ret = "ready",
                                ![d].restart = \E q \in Pids : worker[q].pc = "killed"]
    /\ queueDir' = TRUE
    /\ UNCHANGED <<pidFile, reqFile, resFile, handler, responses, provider, call>>

\* readFile(responsePath) throws ENOENT for a missing file; for a file that
\* is there it returns the content ("") or throws another error (EIO stands
\* for EACCES, EMFILE, ...)
IOError == "EIO"

ReadErrors(file) == IF file.state = "absent" THEN {"ENOENT"} ELSE {"", IOError}

\* waitForResponseFile: the catch goes on polling (code === 'ENOENT')
Retries_Always(code) == TRUE

Retries(code) == code = "ENOENT"

\* waitForResponseFile: readFile(responsePath); a caught error that is
\* retried is followed by the 100 ms sleep and the loop condition, which
\* finds the 60 s elapsed or not (then the next readFile): both touch
\* nothing outside the process
ReadResponseFile(d) ==
    /\ cli[d].pc = "poll"
    /\ LET id == randomRequestId(d)
       IN \E code \in ReadErrors(resFile[id]), engineOk \in BOOLEAN :
            cli' = [cli EXCEPT ![d] =
              IF code = "" THEN [@ EXCEPT !.pc = "unlinkRes", !.raw = resFile[id]]
              ELSE IF Retries(code)
              THEN WorkerPathFails(@, "Worker response timeout", engineOk)
              ELSE WorkerPathFails(@, code, engineOk)]
    /\ UNCHANGED <<queueDir, pidFile, reqFile, resFile, worker, handler, responses, provider, call>>

\* waitForResponseFile: unlink(responsePath), JSON.parse(raw); then
\* requestTranslationThroughWorker or shutdownWorkerProcess
UnlinkResponseFile_ParseFirst(d) ==
    /\ cli[d].pc = "unlinkRes"
    /\ LET id == randomRequestId(d)
           response == cli[d].raw
       IN /\ resFile' = IF response.state = "partial" THEN resFile
                        ELSE [resFile EXCEPT ![id] = AbsentResponse]
          /\ handler' = IF response.state = "partial" THEN handler
                        ELSE UnlinkResIn(handler, id)
          /\ \E engineOk \in BOOLEAN :
               cli' = [cli EXCEPT ![d] =
                 IF response.state = "partial"
                 THEN WorkerPathFails(@, "Unexpected end of JSON input", engineOk)
                 ELSE IF @.shutdownWorker
                 THEN IF ~response.ok
                      THEN WorkerPathFails(@, IF response.error # NoError THEN response.error
                                              ELSE "Failed to shutdown worker", engineOk)
                      ELSE Done(@, NoResult, NoError, "worker")
                 ELSE IF ~response.ok \/ response.result = NoResult
                      THEN WorkerPathFails(@, IF response.error # NoError THEN response.error
                                              ELSE "Translation failed", engineOk)
                      ELSE Done(@, response.result, NoError, "worker")]
    /\ UNCHANGED <<queueDir, pidFile, reqFile, worker, responses, provider, call>>

UnlinkResponseFile(d) ==
    /\ cli[d].pc = "unlinkRes"
    /\ LET id == randomRequestId(d)
           response == cli[d].raw
       IN /\ resFile' = [resFile EXCEPT ![id] = AbsentResponse]
          /\ handler' = UnlinkResIn(handler, id)
          /\ \E engineOk \in BOOLEAN :
               cli' = [cli EXCEPT ![d] =
                 IF response.state = "partial"
                 THEN WorkerPathFails(@, "Unexpected end of JSON input", engineOk)
                 ELSE IF @.shutdownWorker
                 THEN IF ~response.ok
                      THEN WorkerPathFails(@, IF response.error # NoError THEN response.error
                                              ELSE "Failed to shutdown worker", engineOk)
                      ELSE Done(@, NoResult, NoError, "worker")
                 ELSE IF ~response.ok \/ response.result = NoResult
                      THEN WorkerPathFails(@, IF response.error # NoError THEN response.error
                                              ELSE "Translation failed", engineOk)
                      ELSE Done(@, response.result, NoError, "worker")]
    /\ UNCHANGED <<queueDir, pidFile, reqFile, worker, responses, provider, call>>

\* ------------------------------------------- the translator, step by step
\* Translator.translate and TransformersProvider.translate with their awaits
\* as separate steps, several calls in progress on one Translator.  (The
\* process model above takes a translation as one step of its caller.)

\* the texts Translator.translate is called with
CallTexts == {<<>>, <<"s">>, <<"a">>, <<"j">>, <<"s", "j">>}

EmptyError == "Translation input cannot be empty"
NotAvailableError == "Translation provider is not available"
TimeoutError == "Translation timeout"
\* initializePipeline rejected: the message of the import or of pipeline()
InitError == "Translation failed: initialize"
\* this.translatorPipeline is null when it is called
PipelineError == "Translation failed: this.translatorPipeline is not a function"

\* the provider of the Translator (its constructor and setProvider take any
\* TranslateProvider): available is what isAvailable reports, which is
\* always true for TransformersProvider; translatorPipeline (set or null)
\* and isInitializing are the fields of TransformersProvider; inits counts
\* the initializations started (history)
NewProvider(available) ==
    [available |-> available, translatorPipeline |-> FALSE,
     isInitializing |-> FALSE, inits |-> 0]

\* a Translator.translate call: pc is its position; asked and translated
\* say that it has called provider.isAvailable and provider.translate
NewCall ==
    [pc |-> "idle", text |-> NoText, asked |-> FALSE, translated |-> FALSE,
     result |-> NoResult, error |-> NoError]

Returned(c, result, error) == [c EXCEPT !.pc = "done", !.result = result, !.error = error]

\* Translator.translate: if (!isAvailable)
Unavailable_Never(p) == FALSE

Unavailable(p) == ~p.available

\* initializePipeline: if (this.isInitializing)
MustWait_Never(p) == FALSE

MustWait(p) == p.isInitializing

\* Translator.translate up to its first await
Translate(c) ==
    /\ call[c].pc = "idle"
    /\ \E text \in CallTexts :
         call' = [call EXCEPT ![c] =
                    IF Trim(text) = <<>>
                    THEN Returned([@ EXCEPT !.text = text], NoResult, EmptyError)
                    ELSE IF ~detectJapanese(Trim(text))
                    THEN Returned([@ EXCEPT !.text = text], <<TranslatorResult(text)>>, NoError)
                    ELSE [@ EXCEPT !.pc = "isAvailable", !.text = text, !.asked = TRUE]]
    /\ UNCHANGED <<queueDir, pidFile, reqFile, resFile, worker, handler, cli, responses,
                   provider>>

\* await this.provider.isAvailable() resumes; when available, the call goes
\* on into TransformersProvider.translate up to its first await: of the
\* pipeline call when the pipeline is set, else of initializePipeline, which
\* waits when an initialization is in progress and else starts one
IsAvailableReturns(c) ==
    /\ call[c].pc = "isAvailable"
    /\ IF Unavailable(provider)
       THEN /\ call' = [call EXCEPT ![c] = Returned(@, NoResult, NotAvailableError)]
            /\ UNCHANGED provider
       ELSE IF provider.translatorPipeline
       THEN /\ call' = [call EXCEPT ![c].pc = "pipeline", ![c].translated = TRUE]
            /\ UNCHANGED provider
       ELSE IF MustWait(provider)
       THEN /\ call' = [call EXCEPT ![c].pc = "waitInit", ![c].translated = TRUE]
            /\ UNCHANGED provider
       ELSE /\ call' = [call EXCEPT ![c].pc = "init", ![c].translated = TRUE]
            /\ provider' = [provider EXCEPT !.isInitializing = TRUE, !.inits = @ + 1]
    /\ UNCHANGED <<queueDir, pidFile, reqFile, resFile, worker, handler, cli, responses>>

\* initializePipeline: the import and pipeline() have resolved and the
\* pipeline is assigned, or one of them has rejected; finally
\* isInitializing = false.  On success the call goes on to the pipeline call.
initializePipeline(c) ==
    /\ call[c].pc = "init"
    /\ \E ok \in BOOLEAN :
         /\ provider' = [provider EXCEPT !.translatorPipeline = @ \/ ok,
                                         !.isInitializing = FALSE]
         /\ call' = [call EXCEPT ![c] = IF ok THEN [@ EXCEPT !.pc = "pipeline"]
                                              ELSE Returned(@, NoResult, InitError)]
    /\ UNCHANGED <<queueDir, pidFile, reqFile, resFile, worker, handler, cli, responses>>

\* initializePipeline, the waiting loop: a 100 ms timer fires with
\* isInitializing false, the call returns to translate and calls
\* this.translatorPipeline, which is null when the initialization it waited
\* for failed.  (A timer that fires during the initialization changes nothing.)
WaitInitReturns(c) ==
    /\ call[c].pc = "waitInit"
    /\ ~provider.isInitializing
    /\ call' = [call EXCEPT ![c] = IF provider.translatorPipeline
                                   THEN [@ EXCEPT !.pc = "pipeline"]
                                   ELSE Returned(@, NoResult, PipelineError)]
    /\ UNCHANGED <<queueDir, pidFile, reqFile, resFile, worker, handler, cli, responses,
                   provider>>

\* await this.withTimeout(translationPromise, timeoutMs) resumes: with the
\* output of the pipeline, its rejection, or the timeout
PipelineReturns(c) ==
    /\ call[c].pc = "pipeline"
    /\ \E error \in {NoError, EngineError, TimeoutError} :
         call' = [call EXCEPT ![c] =
                    IF error = NoError
                    THEN Returned(@, <<TranslatorResult(@.text)>>, NoError)
                    ELSE Returned(@, NoResult, error)]
    /\ UNCHANGED <<queueDir, pidFile, reqFile, resFile, worker, handler, cli, responses,
                   provider>>

\* ------------------------------------------------------ the specification
InitPrograms ==
    /\ queueDir = FALSE
    /\ pidFile = AbsentPid
    /\ reqFile = [f \in Ids |-> AbsentRequest]
    /\ resFile = [f \in Ids |-> AbsentResponse]
    /\ worker = [p \in Pids |-> NewWorker]
    /\ handler = [p \in Pids |-> [f \in Ids |-> IdleHandler]]
    /\ cli = [d \in Clis |-> NewCli]
    /\ responses = [id \in Ids |-> 0]

\* the programs run with a TransformersProvider
Init ==
    /\ InitPrograms
    /\ provider = NewProvider(isAvailable)
    /\ call = [c \in Calls |-> NewCall]

\* the steps of worker process p that involve no other process
WorkerAlone(p) ==
    \/ WritePid(p)
    \/ scanQueue(p)
    \/ Exit(p)
    \/ \E f \in Ids :
         \/ ReadRequestFile(p, f)
         \/ UnlinkRequestFile(p, f)
         \/ ProviderTranslate(p, f)
         \/ WriteResponseData(p, f)
         \/ UnlinkPidFile(p, f)

WorkerStep ==
    \E p \in Pids :
        \/ WorkerAlone(p)
        \/ \E f \in Ids : WriteResponseOpen(p, f)

\* the steps of front-end process d
CliProc(d) ==
    \/ Start(d)
    \/ EnsureWorkerDir(d)
    \/ \E p \in Pids : WriteRequestOpen(d, p)
    \/ \E p \in Pids : WritePidOpen(p, d)
    \/ WriteRequestData(d)
    \/ ReadPid(d)
    \/ Probe(d)
    \/ UnlinkStalePid(d)
    \/ spawnWorker(d)
    \/ ReadResponseFile(d)
    \/ UnlinkResponseFile(d)

CliStep == \E d \in Clis : CliProc(d)

\* the worker on its own: the daemon is started by hand (provider.js --queue
\* <dir>) while none runs, and request files are put into the queue
\* directory by any client of the queue: every field of a WorkerRequest is
\* optional
RequestTexts == {NoText, <<"s">>, <<"s", "j">>, <<"s", "a">>}

RequestsPut(f) ==
    {Request(f, NoCommand, text) : text \in RequestTexts}
        \cup {Request(f, "shutdown", NoText), Request(NoId, NoCommand, <<"j">>)}

StartWorker(p) ==
    /\ worker[p].pc = "unborn"
    /\ \A q \in Pids : q < p => worker[q].pc # "unborn"
    /\ \A q \in Pids : ~Running(q)
    /\ worker' = [worker EXCEPT ![p].pc = "start"]
    /\ UNCHANGED <<queueDir, pidFile, reqFile, resFile, handler, cli, responses, provider, call>>

PutRequest(f) ==
    /\ queueDir
    /\ reqFile[f].state = "absent" /\ resFile[f].state = "absent" /\ responses[f] = 0
    /\ \A p \in Pids : handler[p][f].pc = "idle"
    /\ \E request \in RequestsPut(f) : reqFile' = [reqFile EXCEPT ![f] = request]
    /\ UNCHANGED <<queueDir, pidFile, resFile, worker, handler, cli, responses, provider, call>>

\* startQueueWorker: await scanQueue().  The first scan is awaited with no
\* catch: when its fs.readdir fails, startQueueWorker rejects and the catch
\* of main ends the process with process.exit(1).  The marker is written by
\* then.  (The scans started by watch and setInterval have a catch.)
InitialScanFails(p) ==
    /\ worker[p].pc = "start"
    /\ queueDir' = TRUE
    /\ pidFile' = PidMarker(p)
    /\ worker' = [worker EXCEPT ![p] = Dead(@, "failed")]
    /\ UNCHANGED <<reqFile, resFile, handler, cli, responses, provider, call>>

NextWorker ==
    \/ \E p \in Pids : StartWorker(p) \/ WorkerAlone(p) \/ InitialScanFails(p)
    \/ \E f \in Ids : PutRequest(f)

SpecWorker == Init /\ [][NextWorker]_vars

\* one Translator with the calls made on it, and nothing else
InitTranslator ==
    /\ InitPrograms
    /\ \E available \in BOOLEAN : provider = NewProvider(available)
    /\ call = [c \in Calls |-> NewCall]

NextTranslator ==
    \E c \in Calls :
        \/ Translate(c)
        \/ IsAvailableReturns(c)
        \/ initializePipeline(c)
        \/ WaitInitReturns(c)
        \/ PipelineReturns(c)

SpecTranslator == InitTranslator /\ [][NextTranslator]_vars

\* the programs alone
NextNoKill == WorkerStep \/ CliStep

SpecNoKill == Init /\ [][NextNoKill]_vars

\* the programs alone, each front-end process taking its next step sooner
\* or later: its event loop runs the continuation of a completed await, and
\* the clock the two waiting loops read moves on
Fairness == \A d \in Clis : WF_vars(CliProc(d))

SpecFair == Init /\ [][NextNoKill]_vars /\ Fairness

\* the programs, and an environment that may terminate a worker
Next == WorkerStep \/ CliStep \/ \E p \in Pids : Kill(p)

Spec == Init /\ [][Next]_vars

\* -------------------------------------------------------------- properties
\* steps of a worker that the properties speak of
Exits(p) == worker[p].pc = "run" /\ worker'[p].pc = "exited"

HandlesShutdown(p, f) ==
    /\ handler[p][f].pc \in {"write", "write2", "write2Lost", "unlinkPid"}
    /\ handler[p][f].raw.command = "shutdown"

WritesAck(p, f) ==
    /\ handler[p][f].pc \in {"write", "write2", "write2Lost"}
    /\ handler[p][f].raw.command = "shutdown"
    /\ handler'[p][f].pc = "unlinkPid"

\* a request with an id and text that is not empty after trimming
IsTranslationRequest(request) ==
    /\ request.state = "full"
    /\ request.id # NoId
    /\ request.command # "shutdown"
    /\ Trim(request.text) # <<>>

\* C1: a worker does not exit while a shutdown request it handles has its
\* acknowledgment unwritten or while its own pid is still in worker.pid
C1_ExitAfterAckAndMarker ==
    [][\A p \in Pids : Exits(p) =>
          /\ \A f \in Ids : ~HandlesShutdown(p, f)
          /\ pidFile # PidMarker(p)]_vars

\* C2: the requests that are in flight when a worker picks up a shutdown
\* request have their responses written before the acknowledgment is
\* written and before the worker exits
C2_DrainBeforeExit ==
    [][\A p \in Pids : \A f \in Ids :
          /\ WritesAck(p, f) => handler[p][f].unanswered = {}
          /\ Exits(p) => handler[p][f].unanswered = {}]_vars

\* C3: a worker has at most one request between 'file read' and 'response written'
C3_OneAtATime == \A p \in Pids : Cardinality(InFlight(p)) <= 1

HasRead(p, f) == handler[p][f].pc \notin {"idle", "read"}

\* C4: no request file is read by two processRequestFile calls, and the file
\* is gone while its request is parsed and handled
C4_AtMostOnePass ==
    /\ \A f \in Ids : Cardinality({p \in Pids : HasRead(p, f)}) <= 1
    /\ \A p \in Pids : \A f \in Ids :
          handler[p][f].pc \notin {"idle", "read", "unlink"} => reqFile[f].state = "absent"

\* C5: the response of a request id is written at most once
C5_ResponseWrittenOnce == \A id \in Ids : responses[id] <= 1

\* the workers that are alive or draining: the marker written, the process there
Live == {p \in Pids : worker[p].pc = "run"}

\* C6: worker.pid exists exactly while some worker is alive or draining, and
\* it holds the pid of every such worker
C6_MarkerIffAlive ==
    /\ pidFile.state = "full" <=> Live # {}
    /\ \A p \in Live : pidFile = PidMarker(p)

\* what translateLocally gives for the text of c: the result, or the engine's error
LocalOutcome(c) ==
    \/ c.result = <<TranslatorResult(c.text)>> /\ c.error = NoError
    \/ detectJapanese(c.text) /\ c.result = NoResult /\ c.error = EngineError

\* C7: a non-verbose translation whose queued path failed ends with the
\* outcome of the local fallback for its trimmed text, never with the error
\* of the queued path
C7_FallbackOnWorkerFailure ==
    \A d \in Clis :
        LET c == cli[d]
        IN c.pc = "done" /\ ~c.verbose /\ ~c.shutdownWorker /\ c.workerError # NoError
           => /\ c.path = "fallback"
              /\ LocalOutcome(c)
              /\ c.error # c.workerError

C7_Witness ==
    \E d \in Clis :
        /\ cli[d].pc = "done" /\ ~cli[d].verbose /\ ~cli[d].shutdownWorker
        /\ cli[d].workerError = "Worker response timeout"
        /\ cli[d].path = "fallback"
        /\ cli[d].result = <<TranslatorResult(cli[d].text)>>

\* C8: a processRequestFile call that holds a translation request with an
\* id and non-empty text ends, in a worker that keeps running, only by
\* completing writeResponse with the response handleRequest gives
C8_AlwaysResponds ==
    [][\A p \in Pids : \A f \in Ids :
          LET request == handler[p][f].raw
          IN /\ IsTranslationRequest(request)
             /\ handler[p][f].pc # "idle"
             /\ handler'[p][f].pc = "idle"
             /\ worker'[p].pc = "run"
             => responses'[request.id] = responses[request.id] + 1]_vars

\* no worker process exists
NotRunning == \A p \in Pids : ~Running(p)

\* C9: the liveness check of --shutdown-worker, made while no worker runs,
\* ends the invocation with 'Worker is not running' and a non-zero status,
\* creates no request or response file and spawns no worker
C9_ShutdownWhileNotRunning ==
    [][\A d \in Clis :
          /\ cli[d].ret = "shutdown"
          /\ cli[d].pc \in {"readPid", "probe", "stalePid"}
          /\ NotRunning
          /\ cli'[d] # cli[d]
          => /\ cli'[d].pc \in {"probe", "stalePid", "done"}
             /\ cli'[d].pc = "done" =>
                   /\ cli'[d].error = "Worker is not running"
                   /\ cli'[d].exit # 0
                   /\ reqFile[randomRequestId(d)].state = "absent"
                   /\ resFile[randomRequestId(d)].state = "absent"
             /\ reqFile' = reqFile /\ resFile' = resFile
             /\ worker' = worker]_vars

C9_Witness ==
    \E d \in Clis :
        /\ cli[d].pc = "done" /\ cli[d].shutdownWorker
        /\ cli[d].error = "Worker is not running" /\ cli[d].exit = 1
        /\ NotRunning
        /\ \E p \in Pids : worker[p].pc \in {"exited", "killed"}

\* C10: a liveness check that probes the pid of a worker terminated from
\* outside reports false and removes the marker; an invocation that spawned
\* a worker after such a termination does not fail with 'Worker failed to
\* start' while every worker that was spawned and not terminated runs with
\* its marker written
C10_RestartAfterKill ==
    [][\A d \in Clis :
          /\ cli[d].pc = "probe" /\ cli[d].pid \in Pids /\ worker[cli[d].pid].pc = "killed"
             /\ cli'[d] # cli[d]
             => cli'[d].pc = "stalePid"
          /\ cli[d].pc = "stalePid" /\ cli'[d] # cli[d]
             => pidFile'.state = "absent" /\ cli'[d].pc \in {"done", "spawn", "readPid"}
          /\ cli[d].restart /\ Live # {}
             /\ (\A p \in Pids : worker[p].pc \in {"unborn", "run", "killed"})
             => cli'[d].workerError # "Worker failed to start"]_vars

\* C11: an ensureWorkerRunning call whose liveness check finds the worker
\* alive goes on to wait for the response: it spawns no worker and leaves
\* the workers and the marker as they are
C11_IdempotentEnsure ==
    [][\A d \in Clis :
          /\ cli[d].ret = "ensure" /\ cli[d].pc = "probe" /\ Alive(cli[d].pid)
          /\ cli'[d] # cli[d]
          => /\ cli'[d].pc = "poll"
             /\ worker' = worker
             /\ pidFile' = pidFile]_vars

C11_Witness ==
    /\ Cardinality({p \in Pids : worker[p].pc # "unborn"}) = 1
    /\ \A d \in Clis : cli[d].pc = "poll"

\* C12: a verbose invocation with non-empty input ends in the step that
\* starts it, with the outcome of the local translator: it is never at a
\* step of the queued path, and no request or response of its id exists
C12_VerboseSkipsQueue ==
    \A d \in Clis :
        cli[d].verbose /\ cli[d].text # <<>>
        => /\ cli[d].pc = "done"
           /\ cli[d].path = "verbose"
           /\ cli[d].workerError = NoError
           /\ LocalOutcome(cli[d])
           /\ reqFile[randomRequestId(d)].state = "absent"
           /\ resFile[randomRequestId(d)].state = "absent"
           /\ responses[randomRequestId(d)] = 0

C12_Witness ==
    \E d \in Clis :
        /\ cli[d].verbose /\ cli[d].pc = "done" /\ cli[d].path = "verbose"
        /\ detectJapanese(cli[d].text)
        /\ cli[d].result = <<TranslatorResult(cli[d].text)>>

\* the request of d is gone from the queue with no response written, none
\* waiting to be read, and no processRequestFile call holding its content
RequestGone(d) ==
    /\ reqFile[d].state = "absent"
    /\ resFile[d].state = "absent"
    /\ responses[d] = 0
    /\ \A p \in Pids : handler[p][d].pc \in {"idle", "read"} \/ handler[p][d].raw.id = NoId

\* the invocation has made its writeFile(requestPath) call
PostWrite(d) ==
    \/ cli[d].pc \in {"writeReqLost", "spawn", "poll"}
    \/ cli[d].pc \in {"readPid", "probe", "stalePid"} /\ cli[d].ret \in {"ensure", "ready"}

\* C13: a processRequestFile call that read content without an id deletes
\* the file and returns with no response written; a request that is gone
\* unanswered stays so, and the dispatcher waiting for it ends its wait with
\* 'Worker response timeout' (or with the error of a failed read) and, for
\* a translation, the local fallback
C13_MalformedDropped ==
    [][/\ \A p \in Pids : \A f \in Ids :
             /\ handler[p][f].pc = "unlink" /\ handler[p][f].raw.id = NoId
             /\ handler'[p][f].pc # "unlink" /\ worker'[p].pc = "run"
             => /\ handler'[p][f].pc = "idle"
                /\ reqFile'[f].state = "absent"
                /\ resFile' = resFile
                /\ responses' = responses
       /\ \A d \in Clis :
             PostWrite(d) /\ RequestGone(d)
             => /\ RequestGone(d)'
                /\ cli[d].pc = "poll" /\ cli'[d] # cli[d]
                   => /\ cli'[d].pc = "done"
                      /\ cli'[d].workerError \in {"Worker response timeout", IOError}
                      /\ ~cli[d].shutdownWorker => cli'[d].path = "fallback"]_vars

C13_Witness ==
    \E d \in Clis : \E p \in Pids :
        /\ cli[d].pc = "writeReqLost"
        /\ RequestGone(d)
        /\ worker[p].pc = "run" /\ handler[p][d].pc = "idle"

\* steps in which isWorkerAlive returns true, or false, to its caller in d
ReportsAlive(d) ==
    /\ cli[d].pc \in {"readPid", "probe", "stalePid"}
    /\ \/ cli[d].ret = "shutdown" /\ cli'[d].pc = "mkdir"
       \/ cli[d].ret \in {"ensure", "ready"} /\ cli'[d].pc = "poll"

ReportsNotRunning(d) ==
    /\ cli[d].pc \in {"readPid", "probe", "stalePid"}
    /\ \/ cli[d].ret = "shutdown" /\ cli'[d].pc = "done"
          /\ cli'[d].error = "Worker is not running"
       \/ cli[d].ret = "ensure" /\ cli'[d].pc = "spawn"
       \/ cli[d].ret = "ready" /\ cli'[d].pc = "readPid"
       \/ cli[d].ret = "ready" /\ cli'[d].pc = "done"
          /\ cli'[d].workerError = "Worker failed to start"

\* C14: isWorkerAlive returns false for a marker that is absent or holds no
\* pid, leaving the marker alone; for a marker with a pid it probes that pid,
\* and on a failed probe unlinks the marker and returns false; it returns
\* true only on a probe that succeeds, and then leaves the marker alone
C14_LivenessMonitor ==
    [][\A d \in Clis :
          /\ cli[d].pc = "readPid" /\ cli'[d] # cli[d]
             => IF pidFile'.state = "full"
                THEN /\ cli'[d].pc = "probe" /\ cli'[d].pid = pidFile.pid
                     /\ pidFile' = pidFile
                ELSE /\ ReportsNotRunning(d)
                     /\ pidFile'.state # "absent" \/ pidFile.state = "absent"
          /\ cli[d].pc = "probe" /\ cli'[d] # cli[d]
             => /\ pidFile' = pidFile
                /\ IF Running(cli[d].pid) THEN ReportsAlive(d)
                                          ELSE cli'[d].pc = "stalePid"
          /\ cli[d].pc = "stalePid" /\ cli'[d] # cli[d]
             => pidFile'.state = "absent" /\ ReportsNotRunning(d)
          /\ ReportsAlive(d)
             => cli[d].pc = "probe" /\ Running(cli[d].pid) /\ pidFile' = pidFile]_vars

C14_Witness ==
    /\ pidFile.state = "partial"
    /\ \E d \in Clis : cli[d].pc = "spawn"
    /\ \E p \in Pids : worker[p].pc = "start2"

\* the worker processes spawned so far
Spawned == {p \in Pids : worker[p].pc # "unborn"}

\* C15: ensureWorkerRunning goes to spawnWorker only from its own liveness
\* check returning false; spawnWorker starts exactly one process; the wait
\* that follows spawns nothing and ends only with a liveness check that
\* returns true or with 'Worker failed to start'
C15_SpawnOnce ==
    [][\A d \in Clis :
          /\ cli'[d].pc = "spawn" /\ cli[d].pc # "spawn"
             => cli[d].ret = "ensure" /\ ReportsNotRunning(d)
          /\ cli[d].pc = "spawn" /\ cli'[d] # cli[d]
             => /\ Spawned \subseteq Spawned'
                /\ Cardinality(Spawned' \ Spawned) = 1
                /\ cli'[d].pc = "readPid" /\ cli'[d].ret = "ready"
          /\ cli[d].ret = "ready" /\ cli'[d] # cli[d]
             => /\ Spawned' = Spawned
                /\ cli'[d].pc \in {"readPid", "probe", "stalePid", "poll", "done"}
                /\ cli'[d].pc = "poll" => cli[d].pc = "probe" /\ Running(cli[d].pid)
                /\ cli'[d].pc = "done" => cli'[d].workerError = "Worker failed to start"]_vars

C15_Witness ==
    \E d \in Clis :
        /\ cli[d].pc = "done" /\ cli[d].workerError = "Worker failed to start"
        /\ Cardinality(Spawned) = 1

\* C16: queueWorkerRequest goes from ensureWorkerDir to the write of the
\* request file of its id, from there to ensureWorkerRunning, and starts to
\* poll only from a liveness check of ensureWorkerRunning that returned true;
\* what it polls is the response file of its own id; an invocation whose
\* ensureWorkerRunning failed has ended without polling
C16_QueueOrder ==
    [][\A d \in Clis :
          LET id == randomRequestId(d)
          IN /\ cli[d].pc = "mkdir" /\ cli'[d] # cli[d]
                => cli'[d].pc = "writeReq" /\ queueDir' /\ reqFile' = reqFile
             /\ cli'[d].pc = "writeReq" /\ cli[d].pc # "writeReq"
                => cli[d].pc = "mkdir"
             /\ cli[d].pc \in {"writeReq", "writeReq2", "writeReqLost"} /\ cli'[d] # cli[d]
                => /\ cli'[d].pc \in {"writeReq2", "writeReqLost", "readPid"}
                   /\ cli'[d].pc = "readPid"
                      => /\ cli'[d].ret = "ensure"
                         /\ cli[d].pc # "writeReqLost"
                            => reqFile'[id].state = "full" /\ reqFile'[id].id = id
             /\ cli'[d].ret = "ensure" /\ cli[d].ret # "ensure"
                => cli[d].pc \in {"writeReq", "writeReq2", "writeReqLost"}
             /\ cli'[d].pc = "poll" /\ cli[d].pc # "poll"
                => /\ cli[d].ret \in {"ensure", "ready"}
                   /\ cli[d].pc = "probe" /\ Running(cli[d].pid)
             /\ cli[d].pc = "poll" /\ cli'[d].pc = "unlinkRes"
                => cli'[d].raw = resFile'[id]
             /\ cli'[d].workerError = "Worker failed to start"
                => cli[d].pc # "poll" /\ cli'[d].pc = "done"]_vars

C16_Witness ==
    \E d \in Clis :
        /\ cli[d].pc = "poll" /\ queueDir
        /\ reqFile[randomRequestId(d)].state = "full"
        /\ \E p \in Pids : Running(p)

\* C17: the request of the only invocation started so far, written while no
\* worker existed, is not lost: as long as its dispatcher waits for the
\* response, the request is in the queue, or in the hands of a
\* processRequestFile call, or its response has been written
C17_RequestNotLost ==
    \A d \in Clis :
        /\ \A e \in Clis \ {d} : cli[e].pc = "start"
        /\ cli[d].pc = "poll"
        => ~RequestGone(d)

\* C18: every invocation ends, those that take the queued path included:
\* the wait for the worker's start and the wait for the response are both
\* left, whatever the workers do
C18_QueuedPathTerminates == <>(\A d \in Clis : cli[d].pc = "done")

C18_Witness ==
    \E d \in Clis :
        /\ cli[d].pc = "done" /\ cli[d].workerError = "Worker response timeout"
        /\ \E p \in Pids : worker[p].pc = "run" /\ InFlight(p) = {}

\* C19: the wait for the response ends with 'Worker response timeout' only
\* from polls that found no file; a read that raises another error ends the
\* wait in that step with that error, and the invocation does not poll again
C19_PollErrors ==
    [][\A d \in Clis :
          /\ cli[d].pc = "poll" /\ cli'[d] # cli[d]
             => /\ cli'[d].pc \in {"unlinkRes", "done"}
                /\ cli'[d].pc = "done"
                   => cli'[d].workerError \in {"Worker response timeout", IOError}
                /\ cli'[d].workerError = "Worker response timeout"
                   => resFile[randomRequestId(d)].state = "absent"
          /\ cli'[d].workerError = IOError
             => \/ cli[d].pc = "poll" /\ cli'[d].pc = "done"
                \/ cli'[d] = cli[d]]_vars

C19_Witness ==
    \E d \in Clis :
        /\ cli[d].pc = "done" /\ cli[d].workerError = IOError
        /\ cli[d].path = "fallback"
        /\ resFile[randomRequestId(d)].state = "full"

\* C20: once waitForResponseFile has returned a response to a dispatcher
\* that ends with it, the response file of that id does not exist
C20_ResponseDeleted ==
    \A d \in Clis :
        cli[d].pc = "done" /\ cli[d].path = "worker" /\ cli[d].workerError = NoError
        => resFile[randomRequestId(d)].state = "absent"

\* the dispatcher of d has given up on the response timeout and ended
GaveUp(d) == cli[d].pc = "done" /\ cli[d].workerError = "Worker response timeout"

\* C21: after the dispatcher of a request has given up on the response
\* timeout, a processRequestFile call that holds the request ends, in a
\* worker that keeps running, only by writing the response; a response file
\* of that id that is there stays there, and the invocation does nothing more
C21_NoCancellation ==
    [][\A d \in Clis :
          GaveUp(d)
          => /\ \A p \in Pids :
                   /\ IsTranslationRequest(handler[p][d].raw)
                   /\ handler[p][d].pc # "idle"
                   /\ handler'[p][d].pc = "idle"
                   /\ worker'[p].pc = "run"
                   => responses'[d] = responses[d] + 1
             /\ resFile[d].state # "absent" => resFile'[d].state # "absent"
             /\ cli'[d] = cli[d]]_vars

\* C22: a translation invocation ends with a non-zero status exactly when it
\* ends with an error message; that happens only for empty input or when
\* the local translator failed on text with Japanese, and the message is
\* then that failure, not the error of the queued path
C22_FailsOnlyWithFallback ==
    \A d \in Clis :
        LET c == cli[d]
        IN c.pc = "done" /\ ~c.shutdownWorker
           => /\ c.exit # 0 <=> c.error # NoError
              /\ c.exit \in {0, 1}
              /\ c.exit = 0 => c.result = <<TranslatorResult(c.text)>>
              /\ c.exit # 0
                 => /\ c.result = NoResult
                    /\ \/ c.text = <<>> /\ c.error = "Translation input cannot be empty"
                             /\ c.workerError = NoError
                       \/ detectJapanese(c.text) /\ c.error = EngineError
                             /\ c.path \in {"verbose", "fallback"}
                             /\ c.error # c.workerError

C22_Witness ==
    \E d, e \in Clis :
        /\ cli[d].pc = "done" /\ cli[d].workerError = "Worker failed to start"
        /\ cli[d].exit = 1 /\ cli[d].error = EngineError
        /\ cli[e].pc = "done" /\ cli[e].workerError = "Worker failed to start"
        /\ cli[e].exit = 0 /\ cli[e].text = cli[d].text

\* processRequestFile calls of p are under way
Handling(p) == worker[p].processing # {} \/ \E f \in Ids : handler[p][f].pc # "idle"

\* C23: the step that completes the writeFile(PID_FILE) of startQueueWorker
\* leaves the queue directory there and the pid of the worker in worker.pid;
\* no processRequestFile call of a worker is under way before that step
C23_MarkerBeforeScan ==
    [][\A p \in Pids :
          /\ worker[p].pc \in {"start", "start2", "start2Lost"} => ~Handling(p)
          /\ worker[p].pc \in {"start", "start2", "start2Lost"} /\ worker'[p].pc = "run"
             => queueDir' /\ pidFile' = PidMarker(p)]_vars

\* the processRequestFile call of p for f passes the request it read to
\* handleRequest in this step
Handles(p, f) ==
    /\ handler[p][f].pc = "unlink" /\ handler'[p][f].pc # "unlink"
    /\ HasId(handler[p][f].raw)
    /\ worker'[p].pc = "run"

Printed(d) == cli[d].pc = "done" /\ ~cli[d].shutdownWorker /\ cli[d].error = NoError

NoJapanese(t) == \A i \in 1..Len(t) : t[i] # "j"

\* C26: an invocation with non-empty text without Japanese ends, on every
\* path, with wasJapanese false and its trimmed text as translatedText, and
\* never with an error; the provider is not called for such text: no
\* processRequestFile call waits for the provider with it, and the worker's
\* response for it is the text itself
C26_NonJapanesePassThrough ==
    /\ \A d \in Clis :
          cli[d].pc = "done" /\ ~cli[d].shutdownWorker
          /\ cli[d].text # <<>> /\ NoJapanese(cli[d].text)
          => /\ cli[d].error = NoError /\ cli[d].exit = 0
             /\ cli[d].result =
                   <<TranslationOutput(Trim(cli[d].text), Trim(cli[d].text), FALSE)>>
    /\ \A p \in Pids : \A f \in Ids :
          LET request == handler[p][f].raw
          IN handler[p][f].pc # "idle" /\ NoJapanese(request.text)
             => /\ handler[p][f].pc # "translate"
                /\ IsTranslationRequest(request) /\ resFile[request.id].state = "full"
                   => resFile[request.id] =
                        Response(TRUE, <<TranslationOutput(Trim(request.text),
                                                           Trim(request.text), FALSE)>>, NoError)

C26_Witness ==
    \E d, e \in Clis :
        /\ Printed(d) /\ cli[d].path = "worker"
        /\ Printed(e) /\ cli[e].path = "fallback"
        /\ cli[d].text = <<"a">> /\ cli[e].text = <<"a">>
        /\ ~cli[d].result[1].wasJapanese /\ cli[e].result[1].translatedText = <<"a">>

\* C27: a processRequestFile call of a running worker that holds a request
\* with an id and text with Japanese calls the provider; once the provider
\* has returned, the call ends only by writing the response file of that
\* id, the first and only one, with ok true and the result: wasJapanese
\* true, the trimmed text, the engine's output for the trimmed text
C27_JapaneseTranslated ==
    [][\A p \in Pids : \A f \in Ids :
          LET request == handler[p][f].raw
              text == Trim(request.text)
          IN IsTranslationRequest(request) /\ ~NoJapanese(request.text)
             => /\ Handles(p, f) => handler'[p][f].pc = "translate"
                /\ handler[p][f].pc = "write" /\ handler'[p][f].pc # "write"
                   /\ worker'[p].pc = "run"
                   => /\ resFile[request.id].state = "absent" /\ responses[request.id] = 0
                      /\ responses'[request.id] = 1
                      /\ resFile'[request.id] =
                            Response(TRUE, <<TranslationOutput(text, EngineOutput(text), TRUE)>>,
                                     NoError)
                /\ resFile[request.id].state = "full" => resFile'[request.id] = resFile[request.id]]_vars

C27_Witness ==
    \E f \in Ids : \E p \in Pids :
        /\ worker[p].pc = "run"
        /\ responses[f] = 1 /\ resFile[f].state = "full" /\ resFile[f].ok
        /\ resFile[f].result # NoResult
        /\ resFile[f].result[1].wasJapanese
        /\ resFile[f].result[1].originalText = <<"j">>
        /\ resFile[f].result[1].translatedText = <<"a">>

\* C28: a worker process ends only by the process.exit that the handling
\* of a shutdown request has scheduled; its pid leaves worker.pid only by
\* the unlink of a shutdown request it handles; a processRequestFile call
\* that ends without a response (malformed request, unreadable file, engine
\* error) leaves the worker running, the marker as it is, and the file
\* name free for the next scan
C28_OnlyShutdownStops ==
    [][\A p \in Pids :
          /\ Running(p) /\ ~Running(p)'
             => worker[p].pc = "run" /\ worker[p].exitPending /\ worker'[p].pc = "exited"
          /\ Running(p) /\ pidFile = PidMarker(p) /\ pidFile' # pidFile
             => \E f \in Ids : handler[p][f].pc = "unlinkPid"
                                /\ handler[p][f].raw.command = "shutdown"
          /\ \A f \in Ids :
                /\ handler[p][f].pc \in {"read", "unlink", "translate"}
                /\ handler'[p][f].pc = "idle"
                /\ ~worker[p].exitPending
                => /\ worker'[p].pc = "run"
                   /\ f \notin worker'[p].processing
                   /\ pidFile' = pidFile]_vars

C30_SingleWorker == Cardinality({p \in Pids : Running(p)}) <= 1

\* C31: the unlink(pidPath) of isWorkerAlive never removes a marker that
\* holds the pid of a worker process that exists
C31_LiveMarkerSurvives ==
    [][\A d \in Clis :
          cli[d].pc = "stalePid" /\ cli'[d] # cli[d]
          => ~(pidFile.state = "full" /\ Running(pidFile.pid))]_vars

\* C32: a --shutdown-worker invocation is never about to spawn a worker
\* and never waits for one it has spawned
C32_ShutdownNeverSpawns ==
    \A d \in Clis :
        cli[d].shutdownWorker => cli[d].pc # "spawn" /\ cli[d].ret # "ready"

\* the payload that invocation d passes to queueWorkerRequest
Payload(d) ==
    IF cli[d].shutdownWorker THEN Request(NoId, "shutdown", NoText)
                             ELSE Request(NoId, NoCommand, cli[d].text)

\* C33: a step of a dispatcher touches no response file but its own; the
\* response it reads answers the payload it sent; a writeResponse of a
\* worker writes the response of the request its call holds into the file
\* of that request's id, which is the id in the name of the request file,
\* and touches no other response file
C33_OwnResponseOnly ==
    [][/\ \A d \in Clis :
             cli'[d] # cli[d]
             => /\ \A e \in Clis \ {d} : cli'[e] # cli[e] \/ resFile'[e] = resFile[e]
                /\ cli[d].pc = "poll" /\ cli'[d].pc = "unlinkRes" /\ cli'[d].raw.state = "full"
                   => cli'[d].raw = handleRequest(Payload(d))
                /\ cli[d].pc = "unlinkRes" => resFile'[d].state = "absent"
       /\ \A p \in Pids : \A f \in Ids :
             LET request == handler[p][f].raw
             IN /\ handler[p][f].pc \in {"translate", "write", "write2", "write2Lost"}
                   => request.id = f
                /\ handler[p][f].pc \in {"write", "write2"}
                   /\ handler'[p][f].pc \in {"write2", "idle", "unlinkPid"}
                   /\ handler'[p][f].pc # handler[p][f].pc
                   /\ worker'[p].pc = "run"
                   => /\ \A g \in Ids \ {f} : resFile'[g] = resFile[g]
                      /\ resFile'[f] \in {PartialResponse, handleRequest(request)}]_vars

C33_Witness ==
    \E d, e \in Clis :
        /\ cli[d].pc = "unlinkRes" /\ cli[d].raw.state = "full"
        /\ cli[e].pc = "unlinkRes" /\ cli[e].raw.state = "full"
        /\ cli[d].raw # cli[e].raw

\* the dispatcher of d gave up waiting, for the worker's start or for the response
Abandoned(d) ==
    /\ cli[d].pc = "done"
    /\ cli[d].workerError \in {"Worker failed to start", "Worker response timeout"}

\* C34: a request file leaves the queue only by the unlink of a
\* processRequestFile call that has read it; for a request whose
\* dispatcher gave up, the call that has read it ends, in a worker that
\* keeps running, only by writing the response
C34_AbandonedRequestServed ==
    [][\A f \in Ids :
          /\ reqFile[f].state # "absent" /\ reqFile'[f].state = "absent"
             => \E p \in Pids : handler[p][f].pc = "unlink" /\ handler'[p][f].pc # "unlink"
          /\ Abandoned(f) /\ reqFile[f].state = "full"
             => reqFile'[f] = reqFile[f] \/ reqFile'[f].state = "absent"
          /\ Abandoned(f)
             => \A p \in Pids :
                   /\ HasId(handler[p][f].raw)
                   /\ handler[p][f].pc \in {"unlink", "translate", "write", "write2", "write2Lost"}
                   /\ handler'[p][f].pc = "idle"
                   /\ worker'[p].pc = "run"
                   => responses'[f] = responses[f] + 1]_vars

\* C35: a dispatcher that has read a response file with no complete JSON
\* in it removes the file, so that the writer that had opened it writes
\* into a removed file, and ends its wait in that step with the parse
\* error, without another poll: a translation ends with the outcome of the
\* local translator, a --shutdown-worker invocation with the parse error
C35_DeleteBeforeParse ==
    [][\A d \in Clis :
          cli[d].pc = "unlinkRes" /\ cli[d].raw.state = "partial" /\ cli'[d] # cli[d]
          => /\ resFile'[d].state = "absent"
             /\ \A p \in Pids : handler'[p][d].pc # "write2"
             /\ cli'[d].pc = "done"
             /\ cli'[d].workerError = "Unexpected end of JSON input"
             /\ IF cli[d].shutdownWorker
                THEN cli'[d].error = "Unexpected end of JSON input" /\ cli'[d].exit = 1
                ELSE cli'[d].path = "fallback" /\ LocalOutcome(cli'[d])]_vars

C35_Witness ==
    \E d \in Clis : \E p \in Pids :
        /\ cli[d].pc = "done" /\ cli[d].workerError = "Unexpected end of JSON input"
        /\ cli[d].path = "fallback" /\ cli[d].error = NoError
        /\ resFile[d].state = "absent"
        /\ handler[p][d].pc = "write2Lost"

\* an invocation that was started with input that is empty after trimming
EmptyInput(d) == cli[d].pc # "start" /\ ~cli[d].shutdownWorker /\ cli[d].text = <<>>

\* C36: an invocation with input that is empty after trimming, verbose or
\* not, has ended in the step that started it, with 'Translation input
\* cannot be empty' and status 1, on no path of translation; no request or
\* response file of its id exists, and as long as no other kind of
\* invocation has started there is no queue directory and no worker
C36_EmptyInputRejected ==
    /\ \A d \in Clis :
          EmptyInput(d)
          => /\ cli[d].pc = "done"
             /\ cli[d].error = "Translation input cannot be empty" /\ cli[d].exit = 1
             /\ cli[d].result = NoResult
             /\ cli[d].path = "" /\ cli[d].workerError = NoError
             /\ reqFile[randomRequestId(d)].state = "absent"
             /\ resFile[randomRequestId(d)].state = "absent"
             /\ responses[randomRequestId(d)] = 0
    /\ (\A d \in Clis : cli[d].pc = "start" \/ EmptyInput(d))
       => ~queueDir /\ Spawned = {} /\ pidFile.state = "absent"

C36_Witness ==
    \E d, e \in Clis :
        /\ EmptyInput(d) /\ cli[d].verbose /\ cli[d].exit = 1
        /\ EmptyInput(e) /\ ~cli[e].verbose /\ cli[e].exit = 1
        /\ Spawned = {}

\* a request with an id that is no shutdown command and has no text or blank text
NoTextRequest(request) ==
    /\ request.state = "full" /\ request.id # NoId
    /\ request.command # "shutdown"
    /\ \A i \in 1..Len(request.text) : request.text[i] = "s"

\* C37: a processRequestFile call that holds a request with an id, no
\* shutdown command and missing or blank text goes on to writeResponse
\* without the translator being constructed and without a call of the
\* provider, and what it writes for that id is ok false with the error
\* 'No input text provided'
C37_NoTextAnswered ==
    [][\A p \in Pids : \A f \in Ids :
          LET request == handler[p][f].raw
          IN NoTextRequest(request)
             => /\ handler[p][f].pc # "translate"
                /\ Handles(p, f)
                   => /\ handler'[p][f].pc = "write"
                      /\ worker'[p].sharedTranslator = worker[p].sharedTranslator
                /\ handler[p][f].pc = "write" /\ handler'[p][f].pc # "write"
                   /\ worker'[p].pc = "run"
                   => /\ responses'[request.id] = responses[request.id] + 1
                      /\ resFile'[request.id] =
                            Response(FALSE, NoResult, "No input text provided")]_vars

C37_Witness ==
    \E p \in Pids :
        /\ worker[p].pc = "run" /\ ~worker[p].sharedTranslator
        /\ \A q \in Pids \ {p} : worker[q].pc = "unborn"
        /\ resFile[1] = Response(FALSE, NoResult, "No input text provided")
        /\ resFile[2] = Response(FALSE, NoResult, "No input text provided")

\* C38: a Translator.translate call whose text contains Japanese calls
\* provider.isAvailable before anything else of the provider; it calls
\* provider.translate only from there and only when the provider reports
\* available; when the provider reports unavailable, the call ends with the
\* 'not available' error and without a call of provider.translate
C38_AvailabilityFirst ==
    [][\A c \in Calls :
          /\ call[c].pc = "idle" /\ call'[c].pc # "idle" /\ detectJapanese(call'[c].text)
             => /\ call'[c].pc = "isAvailable"
                /\ call'[c].asked /\ ~call'[c].translated
          /\ ~call[c].translated /\ call'[c].translated
             => /\ call[c].pc = "isAvailable" /\ call[c].asked
                /\ provider.available
          /\ call'[c].pc \in {"init", "waitInit", "pipeline"} => call'[c].translated
          /\ call[c].pc = "isAvailable" /\ call'[c].pc # "isAvailable" /\ ~provider.available
             => /\ call'[c].pc = "done"
                /\ call'[c].error = NotAvailableError /\ call'[c].result = NoResult
                /\ ~call'[c].translated]_vars

C38_Witness ==
    /\ ~provider.available
    /\ \E c \in Calls :
         /\ call[c].pc = "done" /\ detectJapanese(call[c].text)
         /\ call[c].asked /\ ~call[c].translated
         /\ call[c].error = NotAvailableError

\* the calls that are inside an initialization of the pipeline
Initializing == {c \in Calls : call[c].pc = "init"}

\* C39: with several translate calls in progress on one provider, at most
\* one of them is initializing the pipeline at any time; a call starts an
\* initialization only while none is in progress and the pipeline is not
\* set; a call that reaches provider.translate while another is
\* initializing waits, and leaves the wait only when that initialization
\* is over and without starting one; the pipeline, once set, stays set
C39_InitializesOnce ==
    [][/\ Cardinality(Initializing') <= 1
       /\ \A c \in Calls :
            /\ call[c].pc # "init" /\ call'[c].pc = "init"
               => /\ Initializing = {}
                  /\ ~provider.translatorPipeline
            /\ ~call[c].translated /\ call'[c].translated /\ Initializing # {}
               => call'[c].pc = "waitInit"
            /\ call[c].pc = "waitInit" /\ call'[c].pc # "waitInit"
               => /\ Initializing = {}
                  /\ call'[c].pc \in {"pipeline", "done"}
       /\ provider.translatorPipeline => provider'.translatorPipeline]_vars

C39_Witness ==
    /\ provider.translatorPipeline /\ provider.inits = 1
    /\ \E c \in Calls : call[c].pc = "waitInit"
    /\ \E c \in Calls : call[c].pc = "pipeline"
    /\ \E c \in Calls : call[c].pc = "done" /\ call[c].translated /\ call[c].error = NoError

====
